---------------------------- MODULE Spec2Model ----------------------------
(***************************************************************************)
(* Model of mutagen-tagger.py: the provider adapters, the fallback         *)
(* resolver get_genre, the tag extractor and writer, process_file and the  *)
(* batch driver main.                                                      *)
(*                                                                         *)
(* The external collaborators (the catalog, tagging, release and           *)
(* encyclopedia sources, and the tag library) are the environment: every   *)
(* answer they can give is an input chosen with \E.                        *)
(***************************************************************************)
EXTENDS Integers, Sequences, FiniteSets, TLC

(***************************************************************************)
(* Bounds                                                                  *)
(***************************************************************************)
\* Largest number of files a run passes to process_file.
MaxFiles == 2
\* Depth at which the interpreter refuses one more nested call of
\* get_genre_spotify (sys.getrecursionlimit(), scaled down).
RecursionLimit == 3
\* Largest number of outcomes of a run whose report is examined on its own.
MaxReport == 7
\* Largest number of runs started in one session of the GUI.
MaxRuns == 2
\* Largest number of lines one tagger subprocess prints.
MaxLines == 2

(***************************************************************************)
(* Values                                                                  *)
(***************************************************************************)
\* Python's None; distinct from every string the program handles.
None == "<None>"

\* Python truthiness of an optional string: `if x:`.
Truthy(v) == v # None /\ v # ""

\* str.title() on the terms the sources of this model answer with.
TitleCase(s) ==
    CASE s = "indie pop" -> "Indie Pop"
      [] s = "rock"      -> "Rock"
      [] s = "metal"     -> "Metal"
      [] s = "seen live" -> "Seen Live"
      [] s = "Jazz"      -> "Jazz"
      [] s = "bebop"     -> "Bebop"
      [] s = "folk"      -> "Folk"
      [] OTHER           -> s

\* str.strip() on the cell texts the encyclopedia source answers with.
Strip(s) ==
    CASE s = "folk " -> "folk"
      [] s = " "     -> ""
      [] OTHER       -> s

\* str.lower() on the tag names the tagging source answers with and on the
\* file names of this model.
Lower(s) ==
    CASE s = "Seen Live" -> "seen live"
      [] s = "A.FLAC"    -> "a.flac"
      [] OTHER           -> s

RECURSIVE JoinComma(_)
\* ', '.join(terms)
JoinComma(terms) ==
    IF terms = << >> THEN ""
    ELSE IF Len(terms) = 1 THEN terms[1]
    ELSE terms[1] \o ", " \o JoinComma(Tail(terms))

RECURSIVE MapTitle(_)
\* [g.title() for g in terms]
MapTitle(terms) ==
    IF terms = << >> THEN << >>
    ELSE <<TitleCase(Head(terms))>> \o MapTitle(Tail(terms))

\* What an adapter call ends with: a returned value or a raised exception.
Ret(v)     == [kind |-> "ret", val |-> v, exc |-> None]
Raise(e)   == [kind |-> "raise", val |-> None, exc |-> e]
Pending    == [kind |-> "pending", val |-> None, exc |-> None]


(***************************************************************************)
(* Provider adapters.  One answer of a source is one input; the adapter    *)
(* is the function from the answer to what the call ends with.             *)
(***************************************************************************)
\* Answers of the catalog source to one pass through the try block of
\* get_genre_spotify: the artist's genres, no matching track, a
\* SpotifyException with its http_status and headers, or any other
\* exception (network error, malformed response).
SpotifyHeaders == {"noheaders", "nokey", "2", "soon"}

SpotifyAnswers ==
    { [t |-> "genres", genres |-> g, status |-> 200, headers |-> "nokey"] :
        g \in {<< >>, <<"indie pop", "rock">>} }
    \cup { [t |-> "noitems", genres |-> << >>, status |-> 200, headers |-> "nokey"] }
    \cup { [t |-> "http", genres |-> << >>, status |-> 429, headers |-> h] :
             h \in SpotifyHeaders }
    \cup { [t |-> "http", genres |-> << >>, status |-> 404, headers |-> "nokey"] }
    \cup { [t |-> "error", genres |-> << >>, status |-> 0, headers |-> "nokey"] }

\* int(e.headers.get('Retry-After', 1)): the number of seconds, or the
\* exception the expression raises.  e.headers is None when the exception
\* carries no headers; a dict without the key gives the default 1.
RetryAfter(headers) ==
    CASE headers = "noheaders" -> [ok |-> FALSE, secs |-> 0, exc |-> "AttributeError"]
      [] headers = "nokey"     -> [ok |-> TRUE,  secs |-> 1, exc |-> None]
      [] headers = "2"         -> [ok |-> TRUE,  secs |-> 2, exc |-> None]
      [] OTHER                 -> [ok |-> FALSE, secs |-> 0, exc |-> "ValueError"]

\* The handler of SpotifyException re-invokes the lookup for this status.
IsRateLimit(status) == status = 429

\* One pass through get_genre_spotify up to, not including, the nested call
\* of line 37: either the call ends (act = "end") or it sleeps and invokes
\* itself again (act = "again").
SpotifyPass(a) ==
    IF a.t = "genres" /\ a.genres # << >>
      THEN [act |-> "end", out |-> Ret(JoinComma(MapTitle(a.genres))), secs |-> 0]
    ELSE IF a.t = "http" /\ IsRateLimit(a.status)
      THEN IF RetryAfter(a.headers).ok
             THEN [act |-> "again", out |-> Pending, secs |-> RetryAfter(a.headers).secs]
             ELSE [act |-> "end", out |-> Raise(RetryAfter(a.headers).exc), secs |-> 0]
    ELSE [act |-> "end", out |-> Ret(None), secs |-> 0]

\* Line 37 without `return`: the value of the nested call is dropped and
\* the caller falls through to `return None`; an exception still passes.
SpotifyNested_Dropped(out) == IF out.kind = "ret" THEN Ret(None) ELSE out

\* What the caller of the nested call does with the nested call's value.
SpotifyNested(out) == out

\* Answers of the tagging source: the top tags of the track, or an error.
LastfmAnswers ==
    { [t |-> "tags", tags |-> g] :
        g \in {<< >>, <<"Seen Live">>, <<"Seen Live", "metal">>} }
    \cup { [t |-> "error", tags |-> << >>] }

\* The stoplist of get_genre_lastfm.
LastfmSkip == {"seen live", "favorites", "favourite", "love", "loved", "awesome",
               "great", "good", "best", "cool", "amazing", "beautiful", "classic"}

RECURSIVE LastfmFilter(_)
\* [name for name in tags if name.lower() not in skip]
LastfmFilter(tags) ==
    IF tags = << >> THEN << >>
    ELSE IF Lower(Head(tags)) \in LastfmSkip THEN LastfmFilter(Tail(tags))
    ELSE <<Head(tags)>> \o LastfmFilter(Tail(tags))

get_genre_lastfm(a) ==
    IF a.t = "tags" /\ LastfmFilter(a.tags) # << >>
      THEN Ret(JoinComma(MapTitle(LastfmFilter(a.tags))))
      ELSE Ret(None)

\* Answers of the release source: no release, a release with its genres
\* and styles, or an error.
DiscogsAnswers ==
    { [t |-> "release", genres |-> <<"Jazz">>, styles |-> <<"bebop">>],
      [t |-> "release", genres |-> << >>, styles |-> << >>],
      [t |-> "nopage", genres |-> << >>, styles |-> << >>],
      [t |-> "error", genres |-> << >>, styles |-> << >>] }

get_genre_discogs(a) ==
    IF a.t = "release" /\ (a.genres \o a.styles) # << >>
      THEN Ret(JoinComma(MapTitle(a.genres \o a.styles)))
      ELSE Ret(None)

\* Answers of the encyclopedia source: no search hit, a page that is not
\* served, a page without infobox, an infobox without genre row, a genre
\* row without cell, the texts of the genre cell, or an error.
WikiAnswers ==
    { [t |-> k, items |-> << >>] :
        k \in {"nosearch", "badstatus", "noinfobox", "norow", "nocell", "error"} }
    \cup { [t |-> "cell", items |-> i] : i \in {<<"folk ">>, <<" ", "">>} }

RECURSIVE WikiGenres(_)
\* [i.strip().title() for i in items if i.strip()]
WikiGenres(items) ==
    IF items = << >> THEN << >>
    ELSE IF Strip(Head(items)) = "" THEN WikiGenres(Tail(items))
    ELSE <<TitleCase(Strip(Head(items)))>> \o WikiGenres(Tail(items))

_fetch_wiki_genre(a) ==
    IF a.t = "cell" THEN Ret(JoinComma(WikiGenres(a.items))) ELSE Ret(None)

get_genre_wikipedia_track(a) == _fetch_wiki_genre(a)

get_genre_wikipedia_artist(a) == _fetch_wiki_genre(a)

(***************************************************************************)
(* Tag library and files                                                   *)
(***************************************************************************)
\* A tag is absent (None), present and empty, or present with a text.
ArtistValues == {None, "", "Artist"}
TitleValues  == {None, "", "Title"}
GenreValues  == {None, "", "Pop"}

\* A supported file as the tag library sees it: its container format, what
\* opening it gives (a tag object, None for a file the library does not
\* recognise, or an exception), and the tags it carries.
FileKinds ==
    { [fmt |-> f, open |-> "ok", artist |-> a, title |-> t, genre |-> g] :
        f \in {"mp3", "flac"}, a \in ArtistValues, t \in TitleValues,
        g \in GenreValues }
    \cup { [fmt |-> f, open |-> o, artist |-> None, title |-> None, genre |-> None] :
        f \in {"mp3", "flac"}, o \in {"none", "raise"} }

NoFile == [fmt |-> "none", open |-> "none", artist |-> None, title |-> None,
           genre |-> None]

\* The keys the easy interface of the tag library accepts for an MP3 file
\* (the lower-cased key is looked up in this registry; any other key is a
\* KeyError, which get() turns into the default).
EasyID3Keys == {"artist", "title", "genre", "album", "date", "tracknumber"}

\* The keys under which this model stores tags.
StoredKeys == {"artist", "title", "genre"}

\* audiofile.get(key, [None])[0] on a file opened with easy=True.
EasyGet(f, key) ==
    IF f.fmt = "mp3"
      THEN IF key \in EasyID3Keys /\ key \in StoredKeys THEN f[key] ELSE None
      ELSE IF key \in StoredKeys THEN f[key] ELSE None

is_flac(f) == f.fmt = "flac"

AllNone == [artist |-> None, title |-> None, comments |-> None, genre |-> None]

\* The test `if artist:` in place of `if artist and title:`.
HasArtistAndTitle_ArtistOnly(artist, title) == Truthy(artist)

\* `if artist and title` of extract_metadata and of process_file.
HasArtistAndTitle(artist, title) == Truthy(artist) /\ Truthy(title)

extract_metadata(f) ==
    IF f.open # "ok" THEN AllNone
    ELSE LET artist   == EasyGet(f, "artist")
             title    == EasyGet(f, "title")
             comments == IF is_flac(f) THEN EasyGet(f, "comment")
                                       ELSE EasyGet(f, "COMM::eng")
             genre    == IF is_flac(f) THEN EasyGet(f, "genre")
                                       ELSE EasyGet(f, "TCON")
         IN  IF HasArtistAndTitle(artist, title)
               THEN [artist |-> artist, title |-> title,
                     comments |-> comments, genre |-> genre]
               ELSE AllNone

\* What the tag library does when update_genre opens and saves the file.
WriteOutcomes == {"ok", "none", "raise"}

\* The file after update_genre(file_path, genre); update_genre returns
\* nothing and raises nothing.
update_genre(f, genre, w) ==
    IF w = "ok" THEN [f EXCEPT !.genre = genre] ELSE f

(***************************************************************************)
(* Filesystem and enumeration                                              *)
(***************************************************************************)
\* Line 12.
SUPPORTED_EXTENSIONS == {".mp3", ".flac"}

\* The names of this model in the order of Python's `<` on str (code
\* points: upper-case letters before lower-case ones, "." before letters).
NameOrder == <<"A.FLAC", "b.mp3", "c.wav", "d.mp3", "deep", "e.flac", "g.mp3",
               "h.mp3", "i.mp3", "j.mp3", "k.mp3", "l.mp3", "m.mp3", "x", "y">>

Rank(name) == CHOOSE i \in 1..Len(NameOrder) : NameOrder[i] = name

\* a < b on two names.
NameLess(a, b) == Rank(a) < Rank(b)

\* sorted(names)
sorted(names) == SortSeq(names, NameLess)

\* s.endswith(suffix) on the names of this model and their lower-cased
\* forms.
EndsWith(s, suffix) ==
    \/ suffix = ".flac" /\ s \in {"a.flac", "e.flac"}
    \/ suffix = ".mp3"  /\ s \in {"b.mp3", "d.mp3", "g.mp3", "h.mp3", "i.mp3",
                                  "j.mp3", "k.mp3", "l.mp3", "m.mp3"}
    \/ suffix = ".FLAC" /\ s = "A.FLAC"
    \/ suffix = ".wav"  /\ s = "c.wav"

\* The comparison without lower(): filename.endswith(SUPPORTED_EXTENSIONS).
HasSupportedExtension_CaseSensitive(name) ==
    \E e \in SUPPORTED_EXTENSIONS : EndsWith(name, e)

\* filename.lower().endswith(SUPPORTED_EXTENSIONS)
HasSupportedExtension(name) ==
    \E e \in SUPPORTED_EXTENSIONS : EndsWith(Lower(name), e)

\* A directory: the names of its entries that are not directories, and the
\* names of its subdirectories.
EmptyDir == [files |-> {}, dirs |-> {}]

\* The entries the target directory can hold at its top level.  "d.mp3" in
\* dirs is a directory whose name ends like an audio file.
RootFiles == {"A.FLAC", "b.mp3", "c.wav"}
RootDirs  == {"d.mp3", "x", "y"}

\* The content of the directory at path d (a sequence of names below the
\* target) when the target directory is t: x holds the directory deep,
\* which holds g.mp3; y holds e.flac; d.mp3 is empty.
Contents(t, d) ==
    CASE d = << >>          -> t
      [] d = <<"x">>         -> [files |-> {}, dirs |-> {"deep"}]
      [] d = <<"x", "deep">> -> [files |-> {"g.mp3"}, dirs |-> {}]
      [] d = <<"y">>         -> [files |-> {"e.flac"}, dirs |-> {}]
      [] OTHER               -> EmptyDir

RECURSIVE SetSeq(_)
SetSeq(S) ==
    IF S = {} THEN << >>
    ELSE LET x == CHOOSE y \in S : TRUE IN <<x>> \o SetSeq(S \ {x})

\* The order in which the filesystem lists a set of entries: it is the
\* filesystem's own, here ascending or descending by name.
FsOrders == {"asc", "desc"}

FsList(S, order) ==
    IF order = "asc" THEN SortSeq(SetSeq(S), NameLess)
    ELSE SortSeq(SetSeq(S), LAMBDA a, b : NameLess(b, a))

\* os.listdir(path): every entry, files and directories.
os_listdir(t, d, order) == FsList(Contents(t, d).files \cup Contents(t, d).dirs, order)

\* os.path.isfile(os.path.join(d, name))
os_path_isfile(t, d, name) == name \in Contents(t, d).files

RECURSIVE os_walk(_, _, _)
RECURSIVE WalkEach(_, _, _, _)
\* os.walk(path), top-down: the triple of the directory, then the walk of
\* each of its subdirectories in the order the filesystem lists them.
os_walk(t, d, order) ==
    <<[root |-> d, dirs |-> FsList(Contents(t, d).dirs, order),
       files |-> FsList(Contents(t, d).files, order)]>>
    \o WalkEach(t, d, FsList(Contents(t, d).dirs, order), order)

WalkEach(t, d, subs, order) ==
    IF subs = << >> THEN << >>
    ELSE os_walk(t, Append(d, Head(subs)), order)
         \o WalkEach(t, d, Tail(subs), order)

\* The (directory, filename) pairs a loop visits for one directory.
InDir(d, names) == [i \in 1..Len(names) |-> [root |-> d, name |-> names[i]]]

RECURSIVE WalkLoop(_)
\* for root, _, files in os.walk(...): for filename in sorted(files)
WalkLoop(triples) ==
    IF triples = << >> THEN << >>
    ELSE InDir(Head(triples).root, sorted(Head(triples).files))
         \o WalkLoop(Tail(triples))

\* Lines 334-346: the pairs the loops of main visit, in order.
Iteration(t, rec, order) ==
    IF rec THEN WalkLoop(os_walk(t, << >>, order))
    ELSE InDir(<< >>, sorted(os_listdir(t, << >>, order)))

\* Lines 337 and 343: the test an entry passes to be processed.
Accepted(t, rec, e) ==
    IF rec THEN HasSupportedExtension(e.name)
    ELSE os_path_isfile(t, e.root, e.name) /\ HasSupportedExtension(e.name)

\* os.path.join(root, filename), relative to the target directory.
PathOf(e) == Append(e.root, e.name)

\* os.path.basename(file_path)
Basename(path) == path[Len(path)]

\* The container format of a file, which its name announces.
FormatOf(name) == IF EndsWith(Lower(name), ".flac") THEN "flac" ELSE "mp3"

\* Line 242 returning the genre only when the tag library saved it.
ReturnAfterWrite_OnlySaved(new_genre, w) == IF w = "ok" THEN new_genre ELSE None

\* Line 242: `return filename, new_genre`, whatever update_genre met.
ReturnAfterWrite(new_genre, w) == new_genre

(***************************************************************************)
(* Provider chain                                                          *)
(***************************************************************************)
Families == {"spotify", "lastfm", "discogs", "wikipedia"}

\* The chain with the block of the tagging source placed before the block
\* of the catalog source.
BuildProviders_LastfmFirst(on) ==
    (IF "lastfm" \in on THEN <<"Last.fm">> ELSE << >>)
    \o (IF "spotify" \in on THEN <<"Spotify">> ELSE << >>)
    \o (IF "discogs" \in on THEN <<"Discogs">> ELSE << >>)
    \o (IF "wikipedia" \in on
          THEN <<"Wikipedia (Track)", "Wikipedia (Artist)">> ELSE << >>)

\* The chain main builds from the families that are neither disabled by
\* a flag nor unavailable (credentials, optional dependency).
BuildProviders(on) ==
    (IF "spotify" \in on THEN <<"Spotify">> ELSE << >>)
    \o (IF "lastfm" \in on THEN <<"Last.fm">> ELSE << >>)
    \o (IF "discogs" \in on THEN <<"Discogs">> ELSE << >>)
    \o (IF "wikipedia" \in on
          THEN <<"Wikipedia (Track)", "Wikipedia (Artist)">> ELSE << >>)

\* The test `if result is not None:` in place of `if result:`.
GetGenreReturns_NotNone(out) == out.kind = "ret" /\ out.val # None

\* `if result:` of get_genre: the resolver returns this adapter's value.
GetGenreReturns(out) == out.kind = "ret" /\ Truthy(out.val)

\* A handler `except ValueError` in place of `except Exception`.
GetGenreCatches_ValueError(exc) == exc = "ValueError"

\* `except Exception` of get_genre: the exceptions the resolver catches.
GetGenreCatches(exc) == TRUE

\* The test `if new_genre != "":` in place of `if new_genre:`.
ShouldWrite_NotEmpty(new_genre) == new_genre # ""

\* `if new_genre:` of process_file.
ShouldWrite(new_genre) == Truthy(new_genre)

\* Lines 240-245 with a retry in place of the NO-RESULT branch: without a
\* result process_file goes back to the lookup.
AfterResolve_Retry(new_genre) == IF ShouldWrite(new_genre) THEN "write" ELSE "tagged"

\* Lines 240-245: where process_file goes with the value of get_genre.
AfterResolve(new_genre) == IF ShouldWrite(new_genre) THEN "write" ELSE "noresult"

(***************************************************************************)
(* GUI.py: the lines of the subprocess and the loop body of run_tagger     *)
(***************************************************************************)
\* The lines readline() and strip() give run_tagger: the announcement of a
\* file (mutagen-tagger.py lines 338 and 345), another log line, the empty
\* line of a message that ends with a line break, and the second line of an
\* announcement or message whose file name or tag text holds a line break
\* followed by the marker.
ChildLines == {"INFO: Found: /music/b.mp3", "INFO: Spotify: enabled", "",
               "INFO: Found:.mp3"}

\* line.startswith("INFO: Found:")
StartsWithFound(line) ==
    line \in {"INFO: Found: /music/b.mp3", "INFO: Found:.mp3"}

\* line.split("INFO: Found: ")
SplitFound(line) ==
    CASE line = "INFO: Found: /music/b.mp3" -> <<"", "/music/b.mp3">>
      [] OTHER                              -> <<line>>

\* os.path.basename(filepath)
os_path_basename(filepath) ==
    CASE filepath = "/music/b.mp3" -> "b.mp3"
      [] OTHER                     -> filepath

\* Lines 124-136, the body of the loop for one line: the calls it hands to
\* the interface thread with self.after, or the exception it raises.
LoopBody(line) ==
    IF line = "" THEN [exc |-> None, sched |-> << >>]
    ELSE IF StartsWithFound(line)
      THEN IF Len(SplitFound(line)) < 2
             THEN [exc |-> "IndexError", sched |-> << >>]
             ELSE [exc |-> None,
                   sched |-> <<[fn |-> "lbl_progress",
                                arg |-> os_path_basename(SplitFound(line)[2])],
                               [fn |-> "append_summary", arg |-> line]>>]
    ELSE [exc |-> None, sched |-> <<[fn |-> "append_summary", arg |-> line]>>]

\* What subprocess.Popen does: it starts the subprocess, or raises OSError
\* (the interpreter cannot be executed, no process can be created).
PopenOutcomes == {"ok", "raise"}

\* Lines 100-102 and 145-147: the state of the three controls.
AllDisabled == [btn_start |-> "disabled", btn_select_folder |-> "disabled",
                chk_subdirs |-> "disabled"]

AllNormal == [btn_start |-> "normal", btn_select_folder |-> "normal",
              chk_subdirs |-> "normal"]

(***************************************************************************)
(* State                                                                   *)
(***************************************************************************)
VARIABLES
    avail,      \* provider families enabled and configured (flags, secrets.py)
    target,     \* what --path names: "dir", "file" or "invalid"
    tree,       \* the target directory; for a file target, the file
    recurse,    \* recursion into subdirectories (--no-recurse not given)
    fsorder,    \* the order in which the filesystem lists entries
    lastRun,    \* number of times the batch is run on the target
    run,        \* the current run
    mainpc,     \* position of main
    providers,  \* main: the provider chain
    idx,        \* main: number of the file being processed
    results,    \* main: the list of (file, genre)
    report,     \* the report file: written or not, and its content
    todo,       \* main: the (directory, filename) pairs the loops visit
    pos,        \* main: number of pairs visited
    passed,     \* the paths passed to process_file, in order
    found,      \* the paths of the "Found: " log lines, in order
    errors,     \* the error lines main logged
    pc,         \* position of process_file
    cur,        \* the file being processed, as it is on disk
    before,     \* the same file as it was when process_file was entered
    meta,       \* process_file: the tuple extract_metadata returned
    pidx,       \* get_genre: position in the provider chain
    out,        \* what the running adapter call ended with
    hist,       \* get_genre_spotify: the answers to the passes of this lookup
    slept,      \* get_genre_spotify: the intervals slept in this lookup
    calls,      \* get_genre: providers invoked for this track, in order
    outs,       \* get_genre: what each of these invocations ended with
    new_genre,  \* process_file: the value get_genre returned
    outcome,    \* process_file: the genre it returns
    updCalls,   \* number of update_genre calls for this file
    saves,      \* number of times the tag library saved this file
    disk,       \* files as an earlier run left them, for the run that follows
    memo,       \* how the adapter calls of an earlier run ended, per file
    report1,    \* the report of the earlier run
    selected_path, \* GUI: the folder chosen, "" when none
    subdirs,    \* GUI: the sub-directory check box is checked
    controls,   \* GUI: state of the start, folder and sub-directory controls
    lbl_progress, \* GUI: the progress label
    started,    \* GUI: number of background threads started
    thr,        \* GUI: position of each background thread in run_tagger
    proc,       \* GUI: state of the subprocess of each thread
    cmd,        \* GUI: the command line of the subprocess of each thread
    pipe,       \* GUI: lines a subprocess printed that are not yet read
    printed,    \* GUI: number of lines each subprocess printed
    afterq      \* GUI: calls scheduled with self.after, not yet run

vars == <<avail, target, tree, recurse, fsorder, lastRun, run, mainpc,
          providers, idx, results, report, todo, pos, passed, found, errors,
          pc, cur, before, meta, pidx, out, hist, slept, calls, outs,
          new_genre, outcome, updCalls, saves, disk, memo, report1,
          selected_path, subdirs, controls, lbl_progress, started, thr, proc,
          cmd, pipe, printed, afterq>>

envVars  == <<avail, target, tree, recurse, fsorder, lastRun>>
walkVars == <<todo, pos, passed, found, errors>>
mainVars == <<run, mainpc, providers, idx, results, report, walkVars>>
fileVars == <<cur, before, updCalls, saves>>
resVars  == <<pidx, out, hist, slept, calls, outs, new_genre>>
keepVars == <<disk, memo, report1>>
guiVars  == <<selected_path, subdirs, controls, lbl_progress, started, thr,
              proc, cmd, pipe, printed, afterq>>
batchVars == <<envVars, mainVars, fileVars, resVars, keepVars, pc, meta,
               outcome>>

\* GUI.py lines 13-72: the window as __init__ leaves it.
InitGUI ==
    /\ selected_path = ""
    /\ subdirs = TRUE
    /\ controls = AllNormal
    /\ lbl_progress = "Esperando..."
    /\ started = 0
    /\ thr = [t \in 1..MaxRuns |-> "none"]
    /\ proc = [t \in 1..MaxRuns |-> "none"]
    /\ cmd = [t \in 1..MaxRuns |-> << >>]
    /\ pipe = [t \in 1..MaxRuns |-> << >>]
    /\ printed = [t \in 1..MaxRuns |-> 0]
    /\ afterq = << >>

NoReport == [written |-> FALSE, entries |-> << >>]

\* The name of the file a file target names.
TargetName == CHOOSE n \in tree.files : TRUE

\* Line 347: the target is an existing file with a supported extension.
IsSupportedFile == target = "file" /\ HasSupportedExtension(TargetName)

\* The number of files the run passes to process_file.
nfiles ==
    IF target = "dir"
      THEN LET it == Iteration(tree, recurse, fsorder)
           IN  Cardinality({i \in DOMAIN it : Accepted(tree, recurse, it[i])})
    ELSE IF IsSupportedFile THEN 1 ELSE 0

\* The targets of this model: a directory and what it holds, an existing
\* file, or a path that does not exist.
Targets ==
    { [kind |-> "dir", tree |-> [files |-> f, dirs |-> d]] :
        f \in SUBSET RootFiles, d \in SUBSET RootDirs }
    \cup { [kind |-> "file", tree |-> [files |-> {n}, dirs |-> {}]] :
             n \in RootFiles }
    \cup { [kind |-> "invalid", tree |-> EmptyDir] }

InitRun(n) ==
    /\ avail \in SUBSET Families
    /\ \E t \in Targets : target = t.kind /\ tree = t.tree
    /\ recurse \in (IF target = "dir" THEN BOOLEAN ELSE {TRUE})
    /\ fsorder \in (IF target = "dir" THEN FsOrders ELSE {"asc"})
    /\ nfiles <= MaxFiles
    /\ lastRun = n
    /\ run = 1
    /\ mainpc = "build"
    /\ providers = << >>
    /\ idx = 0
    /\ results = << >>
    /\ report = NoReport
    /\ todo = << >>
    /\ pos = 0
    /\ passed = << >>
    /\ found = << >>
    /\ errors = << >>
    /\ pc = "idle"
    /\ cur = NoFile
    /\ before = NoFile
    /\ meta = AllNone
    /\ pidx = 0
    /\ out = Pending
    /\ hist = << >>
    /\ slept = << >>
    /\ calls = << >>
    /\ outs = << >>
    /\ new_genre = None
    /\ outcome = None
    /\ updCalls = 0
    /\ saves = 0
    /\ disk = [i \in 1..MaxFiles |-> NoFile]
    /\ memo = [i \in 1..MaxFiles |-> << >>]
    /\ report1 = NoReport
    /\ InitGUI

\* A target without subdirectories: the two loops of main visit the same
\* files, and the order of the filesystem's listing is immaterial.
FlatTarget == tree.dirs = {} /\ recurse /\ fsorder = "asc"

Init == InitRun(1) /\ FlatTarget

\* `if results:` replaced by a test that always passes.
HasResults_Always(res) == TRUE

\* `if results:` of line 354.
HasResults(res) == res # << >>

\* The percentage rounded to the nearest integer in place of the floor.
Percent_Rounded(count, total) == (count * 100 + total \div 2) \div total

\* count*100//total of lines 371-372, for a total that is not 0.
Percent(count, total) == (count * 100) \div total

\* The report file as a division by a total of 0 at line 371 leaves it:
\* opened and headed, then abandoned by the ZeroDivisionError.
AbandonedReport == [written |-> TRUE, entries |-> << >>, total |-> 0]

\* Lines 355-356: [(f, g) for f, g in results if g] and its complement.
WithGenre(res) == SelectSeq(res, LAMBDA r : Truthy(r.genre))

WithoutGenre(res) == SelectSeq(res, LAMBDA r : ~Truthy(r.genre))

\* The lines of a listing: the file name (process_file returns the
\* basename of the path it was given) and the genre.
Listing(res, paths) ==
    [i \in 1..Len(res) |->
        [fname |-> Basename(paths[res[i].file]), genre |-> res[i].genre]]

\* Lines 355-384: the content of the report file.
MakeReport(res, paths) ==
    [written       |-> TRUE,
     entries       |-> res,
     total         |-> Len(res),
     nwith         |-> Len(WithGenre(res)),
     nwithout      |-> Len(WithoutGenre(res)),
     pctWith       |-> Percent(Len(WithGenre(res)), Len(res)),
     pctWithout    |-> Percent(Len(WithoutGenre(res)), Len(res)),
     with_genre    |-> Listing(WithGenre(res), paths),
     without_genre |-> Listing(WithoutGenre(res), paths)]

\* `if providers:` in place of `if not providers:`.
NoProviders_Inverted(p) == p # << >>

\* `if not providers:` of line 325.
NoProviders(p) == p = << >>

(***************************************************************************)
(* main                                                                    *)
(***************************************************************************)
\* Lines 267-327: build the provider chain; with no provider, log and return.
BuildChain ==
    /\ mainpc = "build"
    /\ providers' = BuildProviders(avail)
    /\ IF NoProviders(providers')
         THEN /\ mainpc' = "done"
              /\ errors' = Append(errors, "No genre providers are available.")
         ELSE /\ mainpc' = "path"
              /\ errors' = errors
    /\ UNCHANGED <<guiVars, envVars, run, idx, results, report, todo, pos, passed, found,
                   pc, meta, outcome, fileVars, resVars, keepVars>>

\* The files a run finds at a path: in the first run any file of the format
\* the name announces, and in a later run the file as the earlier run left
\* it.
FilesAt(i, path) ==
    IF run = 1 THEN {f \in FileKinds : f.fmt = FormatOf(Basename(path))}
    ELSE {disk[i]}

\* Entry of process_file(providers, file_path) for file i in state f.
EnterFile(i, f) ==
    /\ idx' = i
    /\ cur' = f
    /\ before' = f
    /\ pc' = "extract"
    /\ meta' = AllNone
    /\ outcome' = None
    /\ updCalls' = 0
    /\ saves' = 0
    /\ pidx' = 0
    /\ out' = Pending
    /\ hist' = << >>
    /\ slept' = << >>
    /\ calls' = << >>
    /\ outs' = << >>
    /\ new_genre' = None

\* Lines 333-335 and 341: the path is a directory; the loops start.
EnterDir ==
    /\ mainpc = "path"
    /\ target = "dir"
    /\ mainpc' = "walk"
    /\ todo' = Iteration(tree, recurse, fsorder)
    /\ UNCHANGED <<guiVars, envVars, run, providers, idx, results, report, pos, passed,
                   found, errors, pc, meta, outcome, fileVars, resVars,
                   keepVars>>

\* Lines 337-339 and 343-346: the next entry passes the test; it is
\* announced and handed to process_file.
Found ==
    /\ mainpc = "walk"
    /\ pc = "idle"
    /\ pos < Len(todo)
    /\ Accepted(tree, recurse, todo[pos + 1])
    /\ pos' = pos + 1
    /\ found' = Append(found, PathOf(todo[pos + 1]))
    /\ passed' = Append(passed, PathOf(todo[pos + 1]))
    /\ \E f \in FilesAt(idx + 1, PathOf(todo[pos + 1])) : EnterFile(idx + 1, f)
    /\ UNCHANGED <<guiVars, envVars, run, mainpc, providers, results, report, todo,
                   errors, keepVars>>

\* Lines 337 and 343: the next entry does not pass the test.
SkipEntry ==
    /\ mainpc = "walk"
    /\ pc = "idle"
    /\ pos < Len(todo)
    /\ ~Accepted(tree, recurse, todo[pos + 1])
    /\ pos' = pos + 1
    /\ UNCHANGED <<guiVars, envVars, run, mainpc, providers, idx, results, report, todo,
                   passed, found, errors, pc, meta, outcome, fileVars, resVars,
                   keepVars>>

\* Lines 347-348: the path is one supported file.
ProcessSingle ==
    /\ mainpc = "path"
    /\ IsSupportedFile
    /\ mainpc' = "single"
    /\ passed' = Append(passed, <<TargetName>>)
    /\ \E f \in FilesAt(1, <<TargetName>>) : EnterFile(1, f)
    /\ UNCHANGED <<guiVars, envVars, run, providers, results, report, todo, pos, found,
                   errors, keepVars>>

\* Lines 349-351: neither a directory nor a supported file.
InvalidPath ==
    /\ mainpc = "path"
    /\ target # "dir"
    /\ ~IsSupportedFile
    /\ mainpc' = "done"
    /\ errors' = Append(errors, "The specified path does not exist or is not a supported audio file")
    /\ UNCHANGED <<guiVars, envVars, run, providers, idx, results, report, todo, pos,
                   passed, found, pc, meta, outcome, fileVars, resVars,
                   keepVars>>

\* results.append(process_file(...)) of lines 339, 346 and 348.
AppendResult ==
    /\ pc = "return"
    /\ results' = Append(results, [file |-> idx, genre |-> outcome])
    /\ mainpc' = IF mainpc = "single" THEN "report" ELSE mainpc
    /\ disk' = IF run < lastRun THEN [disk EXCEPT ![idx] = cur] ELSE disk
    /\ pc' = "idle"
    /\ cur' = NoFile
    /\ before' = NoFile
    /\ meta' = AllNone
    /\ outcome' = None
    /\ updCalls' = 0
    /\ saves' = 0
    /\ pidx' = 0
    /\ out' = Pending
    /\ hist' = << >>
    /\ slept' = << >>
    /\ calls' = << >>
    /\ outs' = << >>
    /\ new_genre' = None
    /\ UNCHANGED <<guiVars, envVars, run, providers, idx, report, walkVars, memo,
                   report1>>

\* The loops over the directory are exhausted.
WalkDone ==
    /\ mainpc = "walk"
    /\ pc = "idle"
    /\ pos = Len(todo)
    /\ mainpc' = "report"
    /\ UNCHANGED <<guiVars, envVars, run, providers, idx, results, report, walkVars, pc,
                   meta, outcome, fileVars, resVars, keepVars>>

\* Lines 353-387: the report, written when there is a result.
WriteReport ==
    /\ mainpc = "report"
    /\ IF ~HasResults(results)
         THEN report' = report /\ mainpc' = "done"
       ELSE IF Len(results) = 0
         THEN report' = AbandonedReport /\ mainpc' = "crashed"
       ELSE report' = MakeReport(results, passed) /\ mainpc' = "done"
    /\ UNCHANGED <<guiVars, envVars, run, providers, idx, results, walkVars, pc, meta,
                   outcome, fileVars, resVars, keepVars>>

\* The batch is started again on the same target.
Rerun ==
    /\ mainpc = "done"
    /\ run < lastRun
    /\ run' = run + 1
    /\ mainpc' = "build"
    /\ providers' = << >>
    /\ idx' = 0
    /\ results' = << >>
    /\ report1' = report
    /\ report' = NoReport
    /\ todo' = << >>
    /\ pos' = 0
    /\ passed' = << >>
    /\ found' = << >>
    /\ errors' = << >>
    /\ UNCHANGED <<guiVars, envVars, pc, meta, outcome, fileVars, resVars, disk, memo>>

(***************************************************************************)
(* process_file                                                            *)
(***************************************************************************)
\* Lines 231-233 and 246-248: EXTRACT.
Extract ==
    /\ pc = "extract"
    /\ meta' = extract_metadata(cur)
    /\ IF HasArtistAndTitle(meta'.artist, meta'.title)
         THEN pc' = "tagged" /\ outcome' = outcome
         ELSE pc' = "return" /\ outcome' = None
    /\ UNCHANGED <<guiVars, envVars, mainVars, fileVars, resVars, keepVars>>

\* Lines 234-238: ALREADY-TAGGED, else the call of get_genre, which invokes
\* the adapter of the first provider (lines 150-152).
AlreadyTagged ==
    /\ pc = "tagged"
    /\ IF Truthy(meta.genre)
         THEN /\ outcome' = meta.genre
              /\ pc' = "return"
              /\ UNCHANGED <<pidx, calls, new_genre>>
         ELSE /\ outcome' = outcome
              /\ IF providers = << >>
                   THEN /\ new_genre' = None
                        /\ pc' = AfterResolve(new_genre')
                        /\ UNCHANGED <<pidx, calls>>
                   ELSE /\ pc' = "adapter"
                        /\ pidx' = 1
                        /\ calls' = <<providers[1]>>
                        /\ new_genre' = new_genre
    /\ out' = Pending
    /\ hist' = << >>
    /\ slept' = << >>
    /\ outs' = << >>
    /\ UNCHANGED <<guiVars, envVars, mainVars, fileVars, meta, keepVars>>

(***************************************************************************)
(* The adapter calls of get_genre                                          *)
(***************************************************************************)
Running(name) ==
    /\ pc = "adapter"
    /\ out = Pending
    /\ providers[pidx] = name

\* In a run that follows another one the sources answer as they did: the
\* call at this position of the chain ends as it ended in the earlier run.
SameEnd(o) ==
    \/ pidx > Len(memo[idx])
    \/ memo[idx][pidx] = o

Replaying == run > 1

\* One pass of get_genre_spotify (lines 18-42).  A pass that is answered
\* with a rate-limit signal sleeps and calls get_genre_spotify again; when
\* the interpreter's recursion limit is reached the RecursionError either
\* leaves through the handlers of all the nested calls (it is raised inside
\* an except block) or is caught by `except Exception` of the innermost
\* call, which returns None.
SpotifyLookup ==
    /\ Running("Spotify")
    /\ \E a \in SpotifyAnswers :
         /\ hist' = Append(hist, a)
         /\ LET r == SpotifyPass(a) IN
              IF r.act = "end"
                THEN /\ out' = IF hist = << >> THEN r.out ELSE SpotifyNested(r.out)
                     /\ Replaying => SameEnd(out')
                     /\ slept' = slept
                ELSE /\ slept' = Append(slept, r.secs)
                     /\ IF Len(hist') >= RecursionLimit
                          THEN /\ out' \in {Ret(None), Raise("RecursionError")}
                               /\ Replaying => SameEnd(out')
                          ELSE out' = Pending
    /\ UNCHANGED <<guiVars, envVars, mainVars, fileVars, pc, meta, outcome, pidx, calls,
                   outs, new_genre, keepVars>>

\* An adapter that makes one pass: the source answers a, the call ends
\* with o.
EndCall(a, o) ==
    /\ hist' = <<a>>
    /\ out' = o
    /\ Replaying => SameEnd(o)
    /\ UNCHANGED <<guiVars, envVars, mainVars, fileVars, pc, meta, outcome, pidx, slept,
                   calls, outs, new_genre, keepVars>>

LastfmLookup ==
    /\ Running("Last.fm")
    /\ \E a \in LastfmAnswers : EndCall(a, get_genre_lastfm(a))

DiscogsLookup ==
    /\ Running("Discogs")
    /\ \E a \in DiscogsAnswers : EndCall(a, get_genre_discogs(a))

WikiTrackLookup ==
    /\ Running("Wikipedia (Track)")
    /\ \E a \in WikiAnswers : EndCall(a, get_genre_wikipedia_track(a))

WikiArtistLookup ==
    /\ Running("Wikipedia (Artist)")
    /\ \E a \in WikiAnswers : EndCall(a, get_genre_wikipedia_artist(a))

\* Lines 150-158 after the adapter call ended, and lines 240-245: return
\* the result, go on with the next provider, or return None; an exception
\* that get_genre does not catch leaves process_file and main.
GetGenreHandle ==
    /\ pc = "adapter"
    /\ out # Pending
    /\ outs' = Append(outs, out)
    /\ memo' = IF run < lastRun
                 THEN [memo EXCEPT ![idx] = Append(@, out)]
                 ELSE memo
    /\ out' = Pending
    /\ IF out.kind = "raise" /\ ~GetGenreCatches(out.exc)
         THEN /\ pc' = "crashed"
              /\ mainpc' = "crashed"
              /\ UNCHANGED <<pidx, calls, hist, slept, new_genre>>
       ELSE IF GetGenreReturns(out)
         THEN /\ new_genre' = out.val
              /\ pc' = AfterResolve(new_genre')
              /\ UNCHANGED <<mainpc, pidx, calls, hist, slept>>
       ELSE IF pidx < Len(providers)
         THEN /\ pidx' = pidx + 1
              /\ calls' = Append(calls, providers[pidx + 1])
              /\ hist' = << >>
              /\ slept' = << >>
              /\ pc' = "adapter"
              /\ UNCHANGED <<mainpc, new_genre>>
       ELSE /\ new_genre' = None
            /\ pc' = AfterResolve(new_genre')
            /\ hist' = << >>
            /\ slept' = << >>
            /\ UNCHANGED <<mainpc, pidx, calls>>
    /\ UNCHANGED <<guiVars, envVars, run, providers, idx, results, report, walkVars,
                   fileVars, meta, outcome, disk, report1>>

\* Lines 240-242: WRITE-BACK.
WriteBack ==
    /\ pc = "write"
    /\ \E w \in WriteOutcomes :
         /\ cur' = update_genre(cur, new_genre, w)
         /\ saves' = IF w = "ok" THEN saves + 1 ELSE saves
         /\ outcome' = ReturnAfterWrite(new_genre, w)
    /\ updCalls' = updCalls + 1
    /\ pc' = "return"
    /\ UNCHANGED <<guiVars, envVars, mainVars, before, meta, resVars, keepVars>>

\* Lines 243-245: NO-RESULT.
NoResult ==
    /\ pc = "noresult"
    /\ outcome' = None
    /\ pc' = "return"
    /\ UNCHANGED <<guiVars, envVars, mainVars, fileVars, meta, resVars, keepVars>>

Next ==
    \/ BuildChain
    \/ EnterDir
    \/ Found
    \/ SkipEntry
    \/ ProcessSingle
    \/ InvalidPath
    \/ AppendResult
    \/ WalkDone
    \/ WriteReport
    \/ Extract
    \/ AlreadyTagged
    \/ SpotifyLookup
    \/ LastfmLookup
    \/ DiscogsLookup
    \/ WikiTrackLookup
    \/ WikiArtistLookup
    \/ GetGenreHandle
    \/ WriteBack
    \/ NoResult

Spec == Init /\ [][Next]_vars

\* The batch run twice on the same directory, the sources answering the
\* second run as they answered the first.  The directory holds one
\* supported file: files are processed independently of each other.
InitTwice == InitRun(2) /\ FlatTarget /\ nfiles <= 1

NextTwice == Next \/ Rerun

SpecTwice == InitTwice /\ [][NextTwice]_vars

\* Every step of the batch is eventually taken: the program is sequential
\* and each call it makes returns.
FairSpec == Init /\ [][Next]_vars /\ WF_vars(Next)

\* The batch on a directory tree, recursive or not, under either listing
\* order of the filesystem, with the tagging source as the only provider
\* (--no-spotify --no-discogs --no-wikipedia).
InitWalk == InitRun(1) /\ target = "dir" /\ avail = {"lastfm"}

NextWalk ==
    \/ BuildChain
    \/ EnterDir
    \/ Found
    \/ SkipEntry
    \/ AppendResult
    \/ WalkDone
    \/ WriteReport
    \/ Extract
    \/ AlreadyTagged
    \/ LastfmLookup
    \/ GetGenreHandle
    \/ WriteBack
    \/ NoResult

SpecWalk == InitWalk /\ [][NextWalk]_vars

\* The names of the audio files of a directory without subdirectories.
ManyNames == <<"A.FLAC", "b.mp3", "g.mp3", "h.mp3", "i.mp3", "j.mp3", "k.mp3",
               "l.mp3", "m.mp3">>

\* The genres process_file returns: None or a non-empty text.
OutcomeValues == {None, "Metal"}

\* main at line 353, after the loops went through a directory of k audio
\* files, for every k up to MaxReport and every outcome of each file.
InitReport ==
    /\ avail = Families
    /\ target = "dir"
    /\ \E k \in 0..MaxReport :
         /\ tree = [files |-> {ManyNames[i] : i \in 1..k}, dirs |-> {}]
         /\ idx = k
         /\ results \in { [i \in 1..k |-> [file |-> i, genre |-> g[i]]] :
                             g \in [1..k -> OutcomeValues] }
         /\ passed = [i \in 1..k |-> <<ManyNames[i]>>]
    /\ recurse = TRUE
    /\ fsorder = "asc"
    /\ lastRun = 1
    /\ run = 1
    /\ mainpc = "report"
    /\ providers = BuildProviders(avail)
    /\ report = NoReport
    /\ todo = Iteration(tree, recurse, fsorder)
    /\ pos = Len(todo)
    /\ found = passed
    /\ errors = << >>
    /\ pc = "idle"
    /\ cur = NoFile
    /\ before = NoFile
    /\ meta = AllNone
    /\ pidx = 0
    /\ out = Pending
    /\ hist = << >>
    /\ slept = << >>
    /\ calls = << >>
    /\ outs = << >>
    /\ new_genre = None
    /\ outcome = None
    /\ updCalls = 0
    /\ saves = 0
    /\ disk = [i \in 1..MaxFiles |-> NoFile]
    /\ memo = [i \in 1..MaxFiles |-> << >>]
    /\ report1 = NoReport
    /\ InitGUI

NextReport == WriteReport

SpecReport == InitReport /\ [][NextReport]_vars

(***************************************************************************)
(* GUI.py: the interface thread, the background threads and the tagger     *)
(* subprocesses                                                            *)
(***************************************************************************)
\* The folders the dialog of select_folder gives: "" when it is cancelled.
Folders == {"", "/music"}

\* Lines 74-78, run when the enabled folder button is clicked.
select_folder ==
    /\ controls.btn_select_folder = "normal"
    /\ \E folder \in Folders :
         selected_path' = IF folder # "" THEN folder ELSE selected_path
    /\ UNCHANGED <<batchVars, subdirs, controls, lbl_progress, started, thr,
                   proc, cmd, pipe, printed, afterq>>

\* The user toggles the enabled sub-directory check box.
ToggleSubdirs ==
    /\ controls.chk_subdirs = "normal"
    /\ subdirs' = ~subdirs
    /\ UNCHANGED <<batchVars, selected_path, controls, lbl_progress, started,
                   thr, proc, cmd, pipe, printed, afterq>>

\* Lines 95-113, run when the enabled start button is clicked.
start_processing ==
    /\ controls.btn_start = "normal"
    /\ started < MaxRuns
    /\ IF selected_path = ""
         THEN /\ lbl_progress' = "Por favor, selecciona una carpeta primero."
              /\ UNCHANGED <<controls, started, thr>>
         ELSE /\ controls' = AllDisabled
              /\ lbl_progress' = "Iniciando..."
              /\ started' = started + 1
              /\ thr' = [thr EXCEPT ![started + 1] = "popen"]
    /\ UNCHANGED <<batchVars, selected_path, subdirs, proc, cmd, pipe, printed,
                   afterq>>

\* Lines 116-120 in thread t: the command line and subprocess.Popen.
Popen(t) ==
    /\ thr[t] = "popen"
    /\ \E o \in PopenOutcomes :
         IF o = "ok"
           THEN /\ proc' = [proc EXCEPT ![t] = "running"]
                /\ cmd' = [cmd EXCEPT ![t] =
                             <<"mutagen-tagger.py", "-p", selected_path>>
                             \o (IF ~subdirs THEN <<"--no-recurse">> ELSE << >>)]
                /\ thr' = [thr EXCEPT ![t] = "read"]
           ELSE /\ thr' = [thr EXCEPT ![t] = "raised"]
                /\ UNCHANGED <<proc, cmd>>
    /\ UNCHANGED <<batchVars, selected_path, subdirs, controls, lbl_progress,
                   started, pipe, printed, afterq>>

\* The subprocess of thread t prints one line.
ChildPrint(t) ==
    /\ proc[t] = "running"
    /\ printed[t] < MaxLines
    /\ \E line \in ChildLines : pipe' = [pipe EXCEPT ![t] = Append(@, line)]
    /\ printed' = [printed EXCEPT ![t] = @ + 1]
    /\ UNCHANGED <<batchVars, selected_path, subdirs, controls, lbl_progress,
                   started, thr, proc, cmd, afterq>>

\* The subprocess of thread t exits, which closes its end of the pipe.
ChildExit(t) ==
    /\ proc[t] = "running"
    /\ proc' = [proc EXCEPT ![t] = "exited"]
    /\ UNCHANGED <<batchVars, selected_path, subdirs, controls, lbl_progress,
                   started, thr, cmd, pipe, printed, afterq>>

\* Lines 123-136 in thread t: readline gives a line, the loop body runs.
ReadLine(t) ==
    /\ thr[t] = "read"
    /\ pipe[t] # << >>
    /\ pipe' = [pipe EXCEPT ![t] = Tail(@)]
    /\ LET r == LoopBody(Head(pipe[t])) IN
         IF r.exc # None
           THEN thr' = [thr EXCEPT ![t] = "raised"] /\ afterq' = afterq
           ELSE thr' = thr /\ afterq' = afterq \o r.sched
    /\ UNCHANGED <<batchVars, selected_path, subdirs, controls, lbl_progress,
                   started, proc, cmd, printed>>

\* Lines 123 and 138 in thread t: readline gives "" at the end of the
\* output, the loop ends and the pipe is closed.
ReadEOF(t) ==
    /\ thr[t] = "read"
    /\ pipe[t] = << >>
    /\ proc[t] = "exited"
    /\ thr' = [thr EXCEPT ![t] = "wait"]
    /\ UNCHANGED <<batchVars, selected_path, subdirs, controls, lbl_progress,
                   started, proc, cmd, pipe, printed, afterq>>

\* Line 139 in thread t: process.wait() returns for the exited subprocess.
Wait(t) ==
    /\ thr[t] = "wait"
    /\ proc[t] = "exited"
    /\ proc' = [proc EXCEPT ![t] = "reaped"]
    /\ thr' = [thr EXCEPT ![t] = "schedule"]
    /\ UNCHANGED <<batchVars, selected_path, subdirs, controls, lbl_progress,
                   started, cmd, pipe, printed, afterq>>

\* Line 141 in thread t: self.after(0, self.processing_finished), after
\* which run_tagger returns and the thread ends.
Schedule(t) ==
    /\ thr[t] = "schedule"
    /\ afterq' = Append(afterq, [fn |-> "processing_finished", arg |-> t])
    /\ thr' = [thr EXCEPT ![t] = "returned"]
    /\ UNCHANGED <<batchVars, selected_path, subdirs, controls, lbl_progress,
                   started, proc, cmd, pipe, printed>>

\* The interface thread runs the oldest scheduled call: a progress update
\* (line 133), append_summary (lines 89-93) or processing_finished (lines
\* 143-148).
RunCallback ==
    /\ afterq # << >>
    /\ afterq' = Tail(afterq)
    /\ LET c == Head(afterq) IN
         IF c.fn = "processing_finished"
           THEN /\ lbl_progress' = "Procesamiento completado."
                /\ controls' = AllNormal
         ELSE IF c.fn = "lbl_progress"
           THEN /\ lbl_progress' = "Procesando: " \o c.arg
                /\ controls' = controls
         ELSE UNCHANGED <<lbl_progress, controls>>
    /\ UNCHANGED <<batchVars, selected_path, subdirs, started, thr, proc, cmd,
                   pipe, printed>>

\* The steps of the user.
UserStep == select_folder \/ ToggleSubdirs \/ start_processing

\* The steps of the threads, the subprocesses and the event loop.
SystemStep ==
    \/ \E t \in 1..MaxRuns : Popen(t)
    \/ \E t \in 1..MaxRuns : ChildPrint(t)
    \/ \E t \in 1..MaxRuns : ChildExit(t)
    \/ \E t \in 1..MaxRuns : ReadLine(t)
    \/ \E t \in 1..MaxRuns : ReadEOF(t)
    \/ \E t \in 1..MaxRuns : Wait(t)
    \/ \E t \in 1..MaxRuns : Schedule(t)
    \/ RunCallback

\* The GUI session; the tagger runs as a subprocess, so the variables of
\* the batch in this process stay as they are.
InitApp == InitRun(1) /\ avail = Families /\ target = "invalid"

NextApp == UserStep \/ SystemStep

\* Threads and subprocesses that can take a step take it, and the event
\* loop runs the calls scheduled; the user is free not to act.
SpecApp == InitApp /\ [][NextApp]_vars /\ WF_vars(SystemStep)

(***************************************************************************)
(* Properties                                                              *)
(***************************************************************************)
\* An adapter call that ended with a non-empty result.
NonEmptyResult(o) == o.kind = "ret" /\ o.val \notin {None, ""}

\* get_genre has returned to process_file.
Resolved == pc \in {"write", "noresult"} \/ (pc = "return" /\ calls # << >>)

\* C1: get_genre invokes the providers strictly in list order, returns the
\* result of the first provider that yields a non-empty result, and invokes
\* no provider placed after that one for the same track.
C1_PriorityOrder ==
    /\ Len(calls) <= Len(providers)
    /\ \A k \in 1..Len(calls) : calls[k] = providers[k]
    /\ \A k \in 1..Len(outs) :
         NonEmptyResult(outs[k]) =>
            /\ Len(calls) = k
            /\ Len(outs) = k
            /\ new_genre = outs[k].val
            /\ pc \in {"write", "return"}
    /\ Resolved =>
         \/ /\ Len(outs) >= 1
            /\ NonEmptyResult(outs[Len(outs)])
         \/ /\ new_genre = None
            /\ Len(calls) = Len(providers)
            /\ Len(outs) = Len(providers)

\* C1 witness: the resolver returned the result of a provider that an
\* earlier provider precedes and a later provider follows; the later one
\* was not invoked.
C1_Witness ==
    /\ pc = "write"
    /\ Len(calls) >= 2
    /\ Len(calls) < Len(providers)
    /\ new_genre = outs[Len(outs)].val
    /\ ~NonEmptyResult(outs[1])

\* A file whose tags carry an artist, a title and a non-empty genre.
CarriesGenre(f) ==
    /\ f.open = "ok"
    /\ f.artist \notin {None, ""}
    /\ f.title \notin {None, ""}
    /\ f.genre \notin {None, ""}

\* C2: for every supported file (MP3 or FLAC) whose tags carry an artist, a
\* title and a non-empty genre, process_file makes no provider call and no
\* write to the file, and returns the pre-existing genre.
C2_SkipIfTagged ==
    CarriesGenre(before) =>
        /\ calls = << >>
        /\ updCalls = 0
        /\ saves = 0
        /\ cur = before
        /\ pc = "return" => outcome = before.genre

\* C3: running the batch twice on the same directory, with no external
\* change between the runs and the same provider responses, the second run
\* makes zero provider calls, writes no audio file, and produces a report
\* identical to the first run's report (every file with an artist and a
\* title being tagged after the first run).
C3_SecondRunIdle ==
    (target = "dir" /\ run = 2 /\ \A i \in 1..nfiles : CarriesGenre(disk[i])) =>
        /\ calls = << >>
        /\ updCalls = 0
        /\ saves = 0
        /\ mainpc = "done" => report = report1

\* A pass of get_genre_spotify that was answered with a rate-limit signal.
RateLimited(a) == a.t = "http" /\ a.status = 429

\* The adapter of the catalog source is the one invoked last.
InSpotify == calls # << >> /\ calls[Len(calls)] = "Spotify"

\* C4: a rate-limit signal makes get_genre_spotify sleep for the
\* Retry-After interval and re-invoke the same lookup exactly once: one
\* lookup never issues more than two attempts, also when the source signals
\* rate-limiting on every attempt.
C4_AtMostOneRetry ==
    InSpotify => Len(hist) <= 2 /\ Len(slept) <= 1

\* The stage of process_file a position belongs to.
Stage(p) ==
    CASE p = "extract"  -> 1
      [] p = "tagged"   -> 2
      [] p = "adapter"  -> 3
      [] p = "write"    -> 4
      [] p = "noresult" -> 4
      [] p = "return"   -> 5
      [] OTHER          -> 0

\* C5: for every file and whatever each provider answers, process_file
\* passes through EXTRACT, ALREADY-TAGGED, RESOLVE, WRITE-BACK or NO-RESULT
\* in this order without going back to an earlier stage, and eventually
\* reaches a terminal outcome, so that the batch eventually finishes.
C5_SequentialAndTerminates ==
    /\ [][(pc \notin {"idle", "return"}) => Stage(pc') >= Stage(pc)]_vars
    /\ [](pc \notin {"idle", "return"} => <>(pc = "return"))
    /\ <>[](mainpc = "done" /\ pc = "idle")

\* C5 witness: a file reached its outcome after the catalog source had
\* signalled rate-limiting on every attempt and the other providers of a
\* chain of at least two had been tried.
C5_Witness ==
    /\ pc = "return"
    /\ Len(outs) >= 2
    /\ outs[1] \in {Ret(None), Raise("RecursionError")}
    /\ providers[1] = "Spotify"
    /\ idx = 2

\* C6: when the catalog source signals rate-limiting on the first attempt
\* and succeeds on the next, get_genre_spotify retries exactly once and
\* returns the genres of the second attempt, and the resolver returns that
\* value without calling a later provider.
C6_RetryThenSuccess ==
    ( /\ InSpotify
      /\ Len(hist) >= 2
      /\ RateLimited(hist[1])
      /\ hist[2].t = "genres"
      /\ hist[2].genres = <<"indie pop", "rock">> ) =>
        /\ Len(hist) = 2
        /\ Len(slept) = 1
        /\ slept[1] = (IF hist[1].headers = "2" THEN 2 ELSE 1)
        /\ pc = "adapter" => out = Ret("Indie Pop, Rock")
        /\ pc # "adapter" =>
              /\ pc \in {"write", "return"}
              /\ new_genre = "Indie Pop, Rock"
              /\ calls = <<"Spotify">>
              /\ outs = <<Ret("Indie Pop, Rock")>>

\* C6 witness: the resolver returned the genres of the second attempt
\* while a later provider of the chain was never invoked.
C6_Witness ==
    /\ pc = "write"
    /\ InSpotify
    /\ Len(hist) = 2
    /\ RateLimited(hist[1])
    /\ hist[2].t = "genres"
    /\ new_genre = "Indie Pop, Rock"
    /\ Len(providers) >= 2

\* C7: an exception raised by an adapter inside get_genre is treated as no
\* result from that provider: it never reaches process_file, and the
\* providers after the failing one are still tried.
C7_ExceptionIsNoResult ==
    /\ pc # "crashed"
    /\ mainpc # "crashed"
    /\ \A k \in 1..Len(outs) :
         outs[k].kind = "raise" =>
            /\ k < Len(providers) => Len(calls) > k /\ calls[k + 1] = providers[k + 1]
            /\ k = Len(providers) => pc \in {"noresult", "return"} /\ new_genre = None

\* C7 witness: the first adapter raised and the resolver returned the
\* result of a later provider.
C7_Witness ==
    /\ pc = "write"
    /\ Len(outs) >= 2
    /\ outs[1].kind = "raise"
    /\ new_genre = outs[Len(outs)].val

\* C8: every provider adapter returns a genre string or None for every
\* failure of its source, including a rate-limit signal whose Retry-After
\* header is missing or not a number; no adapter call ends by raising an
\* exception into the resolver.
C8_AdapterNeverRaises ==
    /\ out.kind # "raise"
    /\ \A k \in 1..Len(outs) : outs[k].kind # "raise"

\* C9: when every provider in the chain returns no result, get_genre
\* returns None, process_file returns genre None, update_genre is never
\* called, and the file's on-disk tags are the same as before.
C9_GracefulExhaustion ==
    ( /\ Resolved
      /\ Len(outs) = Len(providers)
      /\ \A k \in 1..Len(outs) : ~NonEmptyResult(outs[k]) ) =>
        /\ new_genre = None
        /\ pc \in {"noresult", "return"}
        /\ pc = "return" => outcome = None
        /\ updCalls = 0
        /\ saves = 0
        /\ cur = before

\* C9 witness: a chain of at least two providers was exhausted and
\* process_file is about to return.
C9_Witness ==
    /\ pc = "return"
    /\ Len(providers) >= 2
    /\ Len(outs) = Len(providers)
    /\ \A k \in 1..Len(outs) : outs[k] = Ret(None)
    /\ outcome = None

\* A file without usable artist or title, or whose tags cannot be read.
NoTrackKey(f) ==
    \/ f.open # "ok"
    \/ f.artist \in {None, ""}
    \/ f.title \in {None, ""}

\* C10: when the artist or the title of a file is missing or empty, or
\* reading its tags fails, extract_metadata returns the all-None tuple,
\* process_file makes no provider call and no write and returns genre None,
\* and the batch goes on with the next file.
C10_NoTrackKey ==
    /\ [](( pc \notin {"idle", "extract"} /\ NoTrackKey(before) ) =>
            /\ pc = "return"
            /\ meta = AllNone
            /\ outcome = None
            /\ calls = << >>
            /\ updCalls = 0
            /\ saves = 0
            /\ cur = before
            /\ mainpc \in {"walk", "single"})
    /\ [][( pc = "return" /\ NoTrackKey(before) ) =>
            /\ results' = Append(results, [file |-> idx, genre |-> None])
            /\ pc' = "idle"
            /\ mainpc' = (IF mainpc = "single" THEN "report" ELSE "walk")]_vars

\* C10 witness: the first of two files carries an artist and an empty
\* title; extract_metadata returned the all-None tuple and process_file is
\* returning genre None without a provider call.
C10_Witness ==
    /\ pc = "return"
    /\ idx = 1
    /\ nfiles = 2
    /\ before.open = "ok"
    /\ before.artist = "Artist"
    /\ before.title = ""
    /\ meta = AllNone
    /\ outcome = None
    /\ calls = << >>

\* The write of the resolved genre was attempted and the tag library did
\* not save the file: it raised, or it did not recognise the file.
WriteFailed == pc = "return" /\ updCalls = 1 /\ saves = 0

\* Result i is a line of the WITH GENRE listing of the report.
ListedWithGenre(i) ==
    \E j \in 1..Len(report.with_genre) :
        report.with_genre[j] = [fname |-> Basename(passed[results[i].file]),
                                genre |-> results[i].genre]

\* C11: when the resolver found a genre and writing it to the file fails,
\* process_file does not fail: it returns the resolved genre as the file's
\* outcome while the file on disk is as it was; that outcome is what main
\* appends to the results, and every result with a genre is listed under
\* WITH GENRE in the report.
C11_WriteFailureKeepsGenre ==
    /\ [](WriteFailed =>
            /\ Truthy(new_genre)
            /\ outcome = new_genre
            /\ cur = before
            /\ mainpc # "crashed")
    /\ [][pc = "return" =>
            results' = Append(results, [file |-> idx, genre |-> outcome])]_vars
    /\ [](report.written =>
            /\ report.nwith = Len(report.with_genre)
            /\ \A i \in 1..Len(results) :
                  Truthy(results[i].genre) => ListedWithGenre(i))

\* C11 witness: the tagging source named a genre for a file without one,
\* the save failed, and process_file is about to return that genre.
C11_Witness ==
    /\ WriteFailed
    /\ outcome = "Metal"
    /\ before.genre = None
    /\ cur.genre = None


\* The paths main hands to process_file for the target, in the order of
\* its loops.
Enumerated ==
    IF target = "dir"
      THEN LET acc == SelectSeq(todo, LAMBDA e : Accepted(tree, recurse, e))
           IN  [i \in 1..Len(acc) |-> PathOf(acc[i])]
    ELSE IF IsSupportedFile THEN << <<TargetName>> >> ELSE << >>

\* The run went through the target and is at or past the report.
RunEnded == mainpc \in {"report", "done"} /\ providers # << >>
            /\ (target = "dir" \/ IsSupportedFile)

\* C12: no failure met while a file is processed (tags that cannot be
\* read, a provider that fails or raises, a write that fails) aborts the
\* batch; the results only grow, one appended outcome at a time, and when
\* the run over a valid path ends they hold exactly one outcome per
\* enumerated file, in the order in which the files were processed.
C12_OneOutcomePerFile ==
    /\ [](mainpc # "crashed" /\ pc # "crashed")
    /\ [][\/ results' = results
          \/ /\ Len(results') = Len(results) + 1
             /\ SubSeq(results', 1, Len(results)) = results]_vars
    /\ [](RunEnded =>
            /\ passed = Enumerated
            /\ Len(results) = Len(passed)
            /\ \A i \in 1..Len(results) : results[i].file = i)

\* C12 witness: the run over a directory of two files ended; the first
\* file got no genre, the second one did, and both have their outcome.
C12_Witness ==
    /\ RunEnded
    /\ mainpc = "done"
    /\ passed = << <<"A.FLAC">>, <<"b.mp3">> >>
    /\ Len(results) = 2
    /\ results[1] = [file |-> 1, genre |-> None]
    /\ results[2] = [file |-> 2, genre |-> "Metal"]


\* The number of lines of a listing that name the file of result i.
LinesFor(listing, i) ==
    Cardinality({j \in 1..Len(listing) :
                    listing[j].fname = Basename(passed[results[i].file])})

\* p is the integer floor of count*100/total.
IsFloorPercent(p, count, total) ==
    p * total <= count * 100 /\ count * 100 < (p + 1) * total

\* C13: in a written report every outcome is a line of exactly one of the
\* two listings, WITH GENRE when its genre is present and WITHOUT GENRE
\* otherwise; the two counts add up to the total of files processed; each
\* percentage is the integer floor of count*100/total, 42 and 57 for 3
\* files with a genre out of 7; the two percentages add up to 99 or 100.
C13_ReportArithmetic ==
    report.written =>
        /\ report.total = Len(results)
        /\ report.nwith = Len(report.with_genre)
        /\ report.nwithout = Len(report.without_genre)
        /\ \A i \in 1..Len(results) :
             /\ LinesFor(report.with_genre, i)
                  = (IF results[i].genre # None THEN 1 ELSE 0)
             /\ LinesFor(report.without_genre, i)
                  = (IF results[i].genre # None THEN 0 ELSE 1)
        /\ report.nwith + report.nwithout = report.total
        /\ IsFloorPercent(report.pctWith, report.nwith, report.total)
        /\ IsFloorPercent(report.pctWithout, report.nwithout, report.total)
        /\ (report.nwith = 3 /\ report.total = 7) =>
             (report.pctWith = 42 /\ report.pctWithout = 57)
        /\ report.pctWith + report.pctWithout \in {99, 100}

\* C13 witness: the report of seven files of which three have a genre
\* shows 42% and 57%, which add up to 99.
C13_Witness ==
    /\ report.written
    /\ report.total = 7
    /\ report.nwith = 3
    /\ report.pctWith = 42
    /\ report.pctWithout = 57


\* The names of this model that end in .mp3 or .flac, in any letter case.
AudioNames == {"A.FLAC", "b.mp3", "d.mp3", "e.flac", "g.mp3"}

\* The audio files at the top level of the target directory, and those of
\* its whole subtree, as paths below the target.
TopLevelAudio == {<<n>> : n \in tree.files \cap AudioNames}

SubtreeAudio ==
    TopLevelAudio
    \cup (IF "x" \in tree.dirs THEN {<<"x", "deep", "g.mp3">>} ELSE {})
    \cup (IF "y" \in tree.dirs THEN {<<"y", "e.flac">>} ELSE {})

ExpectedAudio == IF recurse THEN SubtreeAudio ELSE TopLevelAudio

PassedSet == {passed[i] : i \in 1..Len(passed)}

\* C14: for a directory target only audio files (.mp3 or .flac in any
\* letter case) of the top level, or of the whole subtree when recursion
\* is enabled, are passed to process_file, none of them twice, and when the
\* loops are done all of them have been passed; a .wav file, a directory,
\* and in a non-recursive run anything below a subdirectory, is never
\* passed.
C14_EnumeratesSupportedFiles ==
    target = "dir" =>
        /\ PassedSet \subseteq ExpectedAudio
        /\ Cardinality(PassedSet) = Len(passed)
        /\ mainpc \in {"report", "done"} => PassedSet = ExpectedAudio
        /\ \A p \in PassedSet :
             /\ Basename(p) # "c.wav"
             /\ p # <<"d.mp3">>
             /\ ~recurse => Len(p) = 1
        /\ pc # "idle" => cur.fmt \in {"mp3", "flac"} /\ passed # << >>

\* C14 witness: a non-recursive run over a directory that holds A.FLAC,
\* b.mp3, c.wav, a directory named d.mp3 and the directory x (with an audio
\* file two levels down) is done and has passed A.FLAC and b.mp3 only.
C14_Witness ==
    /\ target = "dir"
    /\ ~recurse
    /\ tree = [files |-> {"A.FLAC", "b.mp3", "c.wav"}, dirs |-> {"d.mp3", "x"}]
    /\ mainpc = "done"
    /\ PassedSet = {<<"A.FLAC">>, <<"b.mp3">>}


\* The audio files of the target in the order the names alone fix: each
\* directory's files in lexicographic order, then its subdirectories in
\* lexicographic order, each one walked in full before the next.
ByNameOrder ==
    (IF "A.FLAC" \in tree.files THEN << <<"A.FLAC">> >> ELSE << >>)
    \o (IF "b.mp3" \in tree.files THEN << <<"b.mp3">> >> ELSE << >>)
    \o (IF recurse /\ "x" \in tree.dirs
          THEN << <<"x", "deep", "g.mp3">> >> ELSE << >>)
    \o (IF recurse /\ "y" \in tree.dirs THEN << <<"y", "e.flac">> >> ELSE << >>)

\* C15: for a directory target the files are processed in lexicographic
\* order per directory level, depth-first when recursive: at every moment
\* the files processed so far are the first ones of the order that the
\* names in the tree fix, whatever the order in which the filesystem lists
\* the entries and the subdirectories.
C15_OrderFixedByNames ==
    target = "dir" =>
        /\ Len(passed) <= Len(ByNameOrder)
        /\ passed = SubSeq(ByNameOrder, 1, Len(passed))


\* No provider is enabled and configured.
NoProviderAvailable == avail = {}

\* The path is neither an existing directory nor an existing file with a
\* supported extension.
BadPath == target # "dir" /\ ~(target = "file" /\ TargetName \in AudioNames)

\* C16: a run with no provider available, or on a path that is neither an
\* existing directory nor an existing file with a supported extension,
\* calls no provider, passes no file to process_file, modifies no audio
\* file and writes no report; when it has ended it has logged an error.
C16_FatalConditions ==
    (NoProviderAvailable \/ BadPath) =>
        /\ mainpc \in {"build", "path", "done"}
        /\ pc = "idle"
        /\ calls = << >> /\ hist = << >> /\ outs = << >>
        /\ passed = << >> /\ results = << >>
        /\ updCalls = 0 /\ saves = 0
        /\ ~report.written
        /\ mainpc = "done" => Len(errors) = 1

\* C16 witness: with providers available, the run on an existing file
\* named c.wav has ended with an error line and nothing else.
C16_Witness ==
    /\ ~NoProviderAvailable
    /\ BadPath
    /\ target = "file"
    /\ TargetName = "c.wav"
    /\ mainpc = "done"
    /\ Len(errors) = 1
    /\ ~report.written


\* C17: no provider adapter ever returns an empty string: a call that
\* returns gives None or a non-empty text, for the call that just ended and
\* for every call made for this track.
C17_NeverEmptyString ==
    /\ out.kind = "ret" => out.val # ""
    /\ \A i \in 1..Len(outs) : outs[i].kind = "ret" => outs[i].val # ""


\* The five providers in their fixed relative order, and the family that
\* enables each.
FixedOrder == <<"Spotify", "Last.fm", "Discogs", "Wikipedia (Track)",
                "Wikipedia (Artist)">>

FamilyOf(name) ==
    CASE name = "Spotify" -> "spotify"
      [] name = "Last.fm" -> "lastfm"
      [] name = "Discogs" -> "discogs"
      [] OTHER            -> "wikipedia"

\* C18: the provider list is built before the first file is processed; it
\* is the fixed order Spotify, Last.fm, Discogs, Wikipedia (Track),
\* Wikipedia (Artist) restricted to the enabled and configured providers;
\* no step changes it once it is built; and the providers invoked for any
\* file are the first ones of that list in its order, so a provider that
\* failed for one file is invoked again at its position for the next one.
C18_ChainFixedForBatch ==
    /\ [](mainpc # "build" =>
            providers = SelectSeq(FixedOrder, LAMBDA n : FamilyOf(n) \in avail))
    /\ [](passed # << >> => mainpc # "build")
    /\ [][mainpc # "build" => providers' = providers]_vars
    /\ [](/\ Len(calls) <= Len(providers)
          /\ calls = SubSeq(providers, 1, Len(calls)))

\* C18 witness: the catalog source gave nothing for the first file, whose
\* genre came from the tagging source, and it is the provider invoked first
\* for the second file.
C18_Witness ==
    /\ providers = <<"Spotify", "Last.fm">>
    /\ results = <<[file |-> 1, genre |-> "Metal"]>>
    /\ idx = 2
    /\ pc = "adapter"
    /\ calls = <<"Spotify">>


\* C19: every file the batch processes is announced by one "Found: " log
\* line with its path, logged before anything is done with the file: the
\* paths of the "Found: " lines are, in order, the paths passed to
\* process_file, for a directory target and for a single-file target.
C19_FoundAnnouncesEveryFile ==
    found = passed


\* C20: the report is written if and only if the run passed at least one
\* file to process_file: no run ends in a division by a total of 0, a
\* report is written only as the last step of a run, its total is at least
\* 1, and an ended run has a report exactly when it processed a file; in
\* particular the run over a directory without audio file ends without
\* report.
C20_ReportIffProcessed ==
    /\ mainpc # "crashed"
    /\ report.written => (mainpc = "done" /\ report.total >= 1)
    /\ mainpc = "done" => (report.written <=> passed # << >>)
    /\ (mainpc = "done" /\ target = "dir" /\ tree.files \cap AudioNames = {})
          => ~report.written

\* C20 witness: with providers available, the run over an existing
\* directory that holds only c.wav has ended with no report and no error.
C20_Witness ==
    /\ avail # {}
    /\ target = "dir"
    /\ tree.files = {"c.wav"}
    /\ pos = 1
    /\ mainpc = "done"
    /\ passed = << >>
    /\ errors = << >>
    /\ ~report.written


\* The background threads that are inside run_tagger, and the subprocesses
\* that were started and are not yet waited for.
ActiveThreads == {t \in 1..MaxRuns : thr[t] \in {"popen", "read", "wait", "schedule"}}

ActiveProcs == {t \in 1..MaxRuns : proc[t] \in {"running", "exited"}}

\* processing_finished is scheduled for thread t and has not run yet.
FinishedPending(t) ==
    \E i \in 1..Len(afterq) :
        afterq[i] = [fn |-> "processing_finished", arg |-> t]

\* At most one background thread and one subprocess at any time.
AtMostOneRun ==
    Cardinality(ActiveThreads) <= 1 /\ Cardinality(ActiveProcs) <= 1

\* The step that starts a thread leaves the three controls disabled, and
\* they are disabled while a thread is inside run_tagger.
DisabledWhileRunning ==
    /\ [][started' # started => controls' = AllDisabled]_vars
    /\ [](ActiveThreads # {} => controls = AllDisabled)

\* Disabled controls change only when processing_finished runs on the
\* interface thread, which enables the three of them.
EnabledOnlyByFinished ==
    [][(controls = AllDisabled /\ controls' # controls) =>
          /\ afterq # << >>
          /\ Head(afterq).fn = "processing_finished"
          /\ controls' = AllNormal]_vars

\* processing_finished is pending only for a thread that read its
\* subprocess's output to the end and waited for its exit.
ScheduledAfterExit ==
    \A t \in 1..MaxRuns :
        FinishedPending(t) =>
            pipe[t] = << >> /\ proc[t] = "reaped" /\ thr[t] = "returned"

\* Every run that was started re-enables the controls.
EveryRunReenables ==
    \A t \in 1..MaxRuns : (thr[t] = "popen") ~> (controls = AllNormal)

\* C21: in the GUI at most one tagger subprocess and one background thread
\* are active at any time; start_processing disables the start, folder and
\* sub-directory controls before it starts the thread; they stay disabled
\* until processing_finished runs on the interface thread;
\* processing_finished is scheduled only after the output of the
\* subprocess is exhausted and the subprocess has exited; and every started
\* run eventually re-enables the controls.
C21_OneRunAtATime ==
    /\ []AtMostOneRun
    /\ DisabledWhileRunning
    /\ EnabledOnlyByFinished
    /\ []ScheduledAfterExit
    /\ EveryRunReenables

=============================================================================
